---------------------------- MODULE Spec2Model ----------------------------
(***************************************************************************)
(* Model of the system76-oled brightness daemon (src/src/main.rs): the     *)
(* reactor loop of main(), the gamma applier xrandr_output_brightness()    *)
(* and the pollable event sources the loop multiplexes (inotify, the X     *)
(* display connection, the D-Bus system and session connections).          *)
(***************************************************************************)
EXTENDS Integers, Sequences, FiniteSets, TLC

(***************************************************************************)
(* u64 arithmetic.  A u64 is kept as four 16-bit limbs, least significant  *)
(* first, so that the 64-bit width of `requested * 100 / max` and of the   *)
(* `!0` sentinel is the real one.                                          *)
(***************************************************************************)
Base == 2 ^ 16

U64Of(n) == <<n % Base, (n \div Base) % Base, 0, 0>>

U64Max == <<Base - 1, Base - 1, Base - 1, Base - 1>>

\* a u64 below 2^30, as a number
IsSmall(a) == a[3] = 0 /\ a[4] = 0 /\ a[2] < 2 ^ 14

ToNat(a) == a[1] + a[2] * Base

\* a * k for a small k: the wrapped 64-bit product and whether it overflowed
MulSmall(a, k) ==
    LET p1 == a[1] * k
        p2 == a[2] * k + (p1 \div Base)
        p3 == a[3] * k + (p2 \div Base)
        p4 == a[4] * k + (p3 \div Base)
    IN  [value    |-> <<p1 % Base, p2 % Base, p3 % Base, p4 % Base>>,
         overflow |-> (p4 \div Base) > 0]

\* a + d for a small d: the wrapped 64-bit sum and whether it overflowed
AddSmall(a, d) ==
    LET s1 == a[1] + d
        s2 == a[2] + (s1 \div Base)
        s3 == a[3] + (s2 \div Base)
        s4 == a[4] + (s3 \div Base)
    IN  [value    |-> <<s1 % Base, s2 % Base, s3 % Base, s4 % Base>>,
         overflow |-> (s4 \div Base) > 0]

\* floor(a / d) for a divisor 0 < d < 2^15 (schoolbook long division)
DivSmall(a, d) ==
    LET q4 == a[4] \div d
        t3 == (a[4] % d) * Base + a[3]
        q3 == t3 \div d
        t2 == (t3 % d) * Base + a[2]
        q2 == t2 \div d
        t1 == (t2 % d) * Base + a[1]
        q1 == t1 \div d
    IN  <<q1, q2, q3, q4>>

\* a < b and a <= b on u64, from the most significant limb down
U64Less(a, b) ==
    \E i \in 1..4 : a[i] < b[i] /\ \A j \in (i + 1)..4 : a[j] = b[j]

U64LessEq(a, b) == a = b \/ U64Less(a, b)

(***************************************************************************)
(* str::trim() and str::parse::<u64>() on the text of a brightness file.   *)
(* A text is a sequence of one-character strings.                          *)
(***************************************************************************)
Whitespace == {" ", "\n", "\t", "\r"}

Digits == <<"0", "1", "2", "3", "4", "5", "6", "7", "8", "9">>

IsDigit(c) == \E d \in 1..10 : Digits[d] = c

DigitVal(c) == (CHOOSE d \in 1..10 : Digits[d] = c) - 1

RECURSIVE TrimStart(_)
TrimStart(s) ==
    IF s # <<>> /\ Head(s) \in Whitespace THEN TrimStart(Tail(s)) ELSE s

RECURSIVE TrimEnd(_)
TrimEnd(s) ==
    IF s # <<>> /\ s[Len(s)] \in Whitespace
    THEN TrimEnd(SubSeq(s, 1, Len(s) - 1))
    ELSE s

Trim(s) == TrimEnd(TrimStart(s))

ParseErr == [ok |-> FALSE, value |-> U64Of(0)]

\* the digit loop of from_str_radix: checked_mul(10) then checked_add(digit)
RECURSIVE ParseDigits(_, _)
ParseDigits(s, acc) ==
    IF s = <<>> THEN [ok |-> TRUE, value |-> acc]
    ELSE IF ~IsDigit(Head(s)) THEN ParseErr
    ELSE LET m == MulSmall(acc, 10)
             a == AddSmall(m.value, DigitVal(Head(s)))
         IN  IF m.overflow \/ a.overflow THEN ParseErr
             ELSE ParseDigits(Tail(s), a.value)

\* str::parse::<u64>: empty is an error, one leading "+" is accepted
ParseU64(s) ==
    IF s = <<>> THEN ParseErr
    ELSE LET digits == IF Head(s) = "+" THEN Tail(s) ELSE s
         IN  IF digits = <<>> THEN ParseErr
             ELSE ParseDigits(digits, U64Of(0))

(***************************************************************************)
(* Program constants of main().                                            *)
(***************************************************************************)
\* let mut current = !0  (u64::MAX)
Sentinel == U64Max

InfiniteTimeout == -1

ShortTimeout == 100

TimeoutTimes == 10

\* Some("eDP-1") for ("System76", "addw1")
output == <<"e", "D", "P", "-", "1">>

\* first event code of the RandR extension, as XRRQueryExtension reports it
xrr_event_base == 89

RRNotify == 1

RRNotify_OutputChange == 1

(***************************************************************************)
(* Bounds of the model.                                                    *)
(***************************************************************************)
\* events the environment produces in one behaviour
MaxEnvSteps == 2

\* unread inotify events
MaxInotify == 2

\* X events in flight (on the socket or in Xlib's queue)
MaxXEvents == 1

\* messages one D-Bus connection has buffered
MaxBusItems == 1

\* outputs the X server reports in one screen-resource list
MaxOutputs == 1

\* saturation of the per-cycle Applier counter
MaxApplies == 2

\* saturation of the count of live native handles
MaxLive == 3

(***************************************************************************)
(* Inputs the environment draws from.                                      *)
(***************************************************************************)
File(text) == [err |-> FALSE, text |-> text]

\* a read(2) error on the file
Unreadable == [err |-> TRUE, text |-> <<>>]

Text128 == <<"1", "2", "8", "\n">>
Text129 == <<"1", "2", "9", "\n">>
Text300 == <<"3", "0", "0", "\n">>
Text255 == <<"2", "5", "5", "\n">>
Text0 == <<"0", "\n">>
Text1 == <<"1", "\n">>
TextU64Max == <<"1", "8", "4", "4", "6", "7", "4", "4", "0", "7", "3",
                "7", "0", "9", "5", "5", "1", "6", "1", "5", "\n">>
TextBad == <<"\n">>

RequestedFiles ==
    {File(Text128), File(Text129), File(Text255), File(Text300),
     File(TextU64Max), File(TextBad), Unreadable}

MaxFiles == {File(Text255), File(Text1), File(Text0), File(TextBad), Unreadable}

\* a core event (MappingNotify) and the selected RandR notification
MappingNotifyEvent == [type |-> 34, subtype |-> 0]

OutputChangeEvent ==
    [type |-> xrr_event_base + RRNotify, subtype |-> RRNotify_OutputChange]

XEvents == {MappingNotifyEvent, OutputChangeEvent}

Buses == {"system", "session"}

Min(a, b) == IF a < b THEN a ELSE b

Range(s) == {s[i] : i \in 1..Len(s)}

SeqsUpTo(S, n) == UNION {[1..k -> S] : k \in 0..n}

(***************************************************************************)
(* What the X server answers to one Applier invocation: no screen          *)
(* resources, or a list of outputs, each with the answer to                *)
(* XRRGetOutputInfo and XRRGetCrtcGamma.  `crtc` 0 is "no CRTC".           *)
(***************************************************************************)
NameEDP1 == <<"e", "D", "P", "-", "1">>
NameEDP12 == <<"e", "D", "P", "-", "1", "-", "2">>
NameHDMI == <<"H", "D", "M", "I", "-", "1">>
\* starts like the target but holds a byte that is no UTF-8
NameBadUtf8 == <<"e", "D", "P", "-", "1", "0xFF">>

OutputAnswer(info, name, crtc, gamma) ==
    [info |-> info, name |-> name, crtc |-> crtc, gamma |-> gamma]

OutputAnswers ==
    {OutputAnswer(FALSE, <<>>, 0, FALSE),
     OutputAnswer(TRUE, NameEDP1, 1, TRUE),
     OutputAnswer(TRUE, NameEDP1, 1, FALSE),
     OutputAnswer(TRUE, NameEDP1, 0, FALSE),
     OutputAnswer(TRUE, NameEDP12, 1, TRUE),
     OutputAnswer(TRUE, NameHDMI, 1, TRUE),
     OutputAnswer(TRUE, NameBadUtf8, 1, TRUE)}

NoResources == [ok |-> FALSE, outputs |-> <<>>]

ScreenAnswers ==
    {NoResources} \cup
    {[ok |-> TRUE, outputs |-> os] : os \in SeqsUpTo(OutputAnswers, MaxOutputs)}

(***************************************************************************)
(* xrandr_output_brightness: the native calls one invocation makes, in     *)
(* order.  A fetched handle (ScreenResources, OutputInfo, CrtcGamma) is    *)
(* dropped, i.e. freed, at the end of the `if let` block that bound it.    *)
(***************************************************************************)
Call(fn, handle, ok) == [fn |-> fn, handle |-> handle, ok |-> ok]

\* str::from_utf8(info.name())
FromUtf8Ok(name) == \A i \in 1..Len(name) : name[i] # "0xFF"

\* name.starts_with(output_name)
StartsWith(name, prefix) ==
    /\ Len(name) >= Len(prefix)
    /\ SubSeq(name, 1, Len(prefix)) = prefix

\* variant: the name must equal the target
SelectedExact(o) == FromUtf8Ok(o.name) /\ o.name = output /\ o.crtc # 0

\* the output is one whose gamma table the invocation goes on to fetch
Selected(o) == FromUtf8Ok(o.name) /\ StartsWith(o.name, output) /\ o.crtc # 0

\* variant: CrtcGamma without its Drop impl (XRRFreeGamma never called)
GammaCallsLeaky(o, i, brightness_opt) ==
    IF o.gamma
    THEN <<Call("XRRGetCrtcGamma", <<"gamma", i>>, TRUE),
           [fn |-> "XRRSetCrtcGamma", handle |-> <<"gamma", i>>, ok |-> TRUE,
            crtc |-> o.crtc, brightness |-> brightness_opt],
           Call("XFlush", <<"display">>, TRUE)>>
    ELSE <<Call("XRRGetCrtcGamma", <<"gamma", i>>, FALSE)>>

\* lines 229-269: get_crtc_gamma, fill, set_crtc_gamma, flush, drop(gamma)
GammaCalls(o, i, brightness_opt) ==
    IF o.gamma
    THEN <<Call("XRRGetCrtcGamma", <<"gamma", i>>, TRUE),
           [fn |-> "XRRSetCrtcGamma", handle |-> <<"gamma", i>>, ok |-> TRUE,
            crtc |-> o.crtc, brightness |-> brightness_opt],
           Call("XFlush", <<"display">>, TRUE),
           Call("XRRFreeGamma", <<"gamma", i>>, TRUE)>>
    ELSE <<Call("XRRGetCrtcGamma", <<"gamma", i>>, FALSE)>>

\* lines 221-275: one iteration of `for output in resources.outputs()`
OutputCalls(o, i, brightness_opt) ==
    IF o.info
    THEN <<Call("XRRGetOutputInfo", <<"info", i>>, TRUE)>>
         \o (IF Selected(o) THEN GammaCalls(o, i, brightness_opt) ELSE <<>>)
         \o <<Call("XRRFreeOutputInfo", <<"info", i>>, TRUE)>>
    ELSE <<Call("XRRGetOutputInfo", <<"info", i>>, FALSE)>>

RECURSIVE OutputsCalls(_, _, _)
OutputsCalls(outputs, i, brightness_opt) ==
    IF i > Len(outputs) THEN <<>>
    ELSE OutputCalls(outputs[i], i, brightness_opt)
         \o OutputsCalls(outputs, i + 1, brightness_opt)

\* lines 216-280
xrandr_output_brightness(answer, brightness_opt) ==
    IF answer.ok
    THEN <<Call("XRRGetScreenResourcesCurrent", <<"resources", 0>>, TRUE)>>
         \o OutputsCalls(answer.outputs, 1, brightness_opt)
         \o <<Call("XRRFreeScreenResources", <<"resources", 0>>, TRUE)>>
    ELSE <<Call("XRRGetScreenResourcesCurrent", <<"resources", 0>>, FALSE)>>

FetchFns == {"XRRGetScreenResourcesCurrent", "XRRGetOutputInfo", "XRRGetCrtcGamma"}

FreeFns == {"XRRFreeScreenResources", "XRRFreeOutputInfo", "XRRFreeGamma"}

\* the handles fetched and not freed after the calls `calls`, from `held`
RECURSIVE LiveAfter(_, _)
LiveAfter(calls, held) ==
    IF calls = <<>> THEN held
    ELSE LET c == Head(calls)
         IN  LiveAfter(Tail(calls),
                       IF c.fn \in FetchFns /\ c.ok THEN held \cup {c.handle}
                       ELSE IF c.fn \in FreeFns THEN held \ {c.handle}
                       ELSE held)

\* a free of a handle that is not live at that point (double or stray free)
RECURSIVE StrayFree(_, _)
StrayFree(calls, held) ==
    IF calls = <<>> THEN FALSE
    ELSE LET c == Head(calls)
         IN  \/ (c.fn \in FreeFns /\ c.handle \notin held)
             \/ StrayFree(Tail(calls),
                          IF c.fn \in FetchFns /\ c.ok THEN held \cup {c.handle}
                          ELSE IF c.fn \in FreeFns THEN held \ {c.handle}
                          ELSE held)

\* a fetch of the invocation failed (an error!() line was reached)
FetchFailed(calls) ==
    \E i \in 1..Len(calls) : calls[i].fn \in FetchFns /\ ~calls[i].ok

\* the output indexes whose gamma table the invocation committed
Written(calls) ==
    {calls[i].handle[2] : i \in {j \in 1..Len(calls) : calls[j].fn = "XRRSetCrtcGamma"}}

\* what one invocation leaves behind: handles it fetched and did not free,
\* whether it freed a handle it did not hold, whether a fetch failed
Outcome(calls) ==
    [leaked |-> Cardinality(LiveAfter(calls, {})),
     stray  |-> StrayFree(calls, {}),
     failed |-> FetchFailed(calls)]

\* every outcome the X server's answers can give one invocation; which
\* calls are made does not depend on the brightness, so it is fixed here
ApplierOutcomes ==
    {Outcome(xrandr_output_brightness(answer, <<"None">>)) :
        answer \in ScreenAnswers}

(***************************************************************************)
(* One invocation against a screen of several outputs.  A gamma table      *)
(* belongs to a CRTC (get_crtc_gamma and set_crtc_gamma take the CRTC);    *)
(* an output shows the table of the CRTC that info.crtc() names, and the   *)
(* server may drive several outputs from one CRTC.                         *)
(***************************************************************************)
MaxScreenOutputs == 2

MaxCrtc == 2

Crtcs == 1..MaxCrtc

\* shorter than the target
NameEDP == <<"e", "D", "P">>

ScreenOutputAnswers ==
    {OutputAnswer(TRUE, name, crtc, TRUE) :
        name \in {NameEDP1, NameEDP12, NameHDMI, NameEDP, NameBadUtf8},
        crtc \in 0..MaxCrtc}
    \cup {OutputAnswer(FALSE, <<>>, 0, FALSE),
          OutputAnswer(TRUE, NameEDP1, 1, FALSE)}

Screens ==
    {[ok |-> TRUE, outputs |-> os] :
        os \in SeqsUpTo(ScreenOutputAnswers, MaxScreenOutputs)}

Brightnesses == {<<"None">>, <<"Some", U64Of(50), 100>>}

\* the table of no CRTC has been written
Untouched == [c \in Crtcs |-> <<"untouched">>]

\* the CRTCs' tables after the calls `calls`: XRRSetCrtcGamma stores the
\* table filled for the invocation's brightness
RECURSIVE GammaAfter(_, _)
GammaAfter(calls, tables) ==
    IF calls = <<>> THEN tables
    ELSE LET c == Head(calls)
         IN  GammaAfter(Tail(calls),
                        IF c.fn = "XRRSetCrtcGamma"
                        THEN [tables EXCEPT ![c.crtc] = c.brightness]
                        ELSE tables)

(***************************************************************************)
(* The brightness fraction and the arguments of the Applier.               *)
(***************************************************************************)
\* the product requested * 100 (line 411), wrapped, and its overflow flag
Product(req) == MulSmall(req, 100)

\* requested * 100 / max for max > 0; the model's maxima fit 15 bits
Fraction(req, mx) == DivSmall(Product(req).value, ToNat(mx))

\* lines 425-429: None at 100, otherwise Some(current as f64 / 100.0),
\* kept as the pair <<numerator, 100>>
BrightnessOpt(cur) ==
    IF cur = U64Of(100) THEN <<"None">> ELSE <<"Some", cur, 100>>

(***************************************************************************)
(* f64 arithmetic as calulate_value uses it: IEEE 754 binary64 with        *)
(* round-to-nearest-even, for finite values >= 0.  A value is m * 2^e with *)
(* m a natural number below 2^53 (or exactly 2^53), kept as a sequence of  *)
(* 14-bit limbs, least significant first, no leading zero limb.            *)
(***************************************************************************)
LimbBits == 14

BigBase == 2 ^ LimbBits

MantissaBits == 53

\* the guard bits a quotient is computed with before it is rounded
DivScale == 70

RECURSIVE BigOfNat(_)
BigOfNat(n) == IF n = 0 THEN <<>> ELSE <<n % BigBase>> \o BigOfNat(n \div BigBase)

RECURSIVE BigStrip(_)
BigStrip(a) ==
    IF a # <<>> /\ a[Len(a)] = 0 THEN BigStrip(SubSeq(a, 1, Len(a) - 1)) ELSE a

RECURSIVE BigAddCarry(_, _, _)
BigAddCarry(a, b, carry) ==
    IF a = <<>> /\ b = <<>>
    THEN (IF carry = 0 THEN <<>> ELSE <<carry>>)
    ELSE LET x == IF a = <<>> THEN 0 ELSE Head(a)
             y == IF b = <<>> THEN 0 ELSE Head(b)
             t == x + y + carry
         IN  <<t % BigBase>>
             \o BigAddCarry(IF a = <<>> THEN a ELSE Tail(a),
                            IF b = <<>> THEN b ELSE Tail(b),
                            t \div BigBase)

BigAdd(a, b) == BigAddCarry(a, b, 0)

\* a * k for 0 <= k < 2^16
RECURSIVE BigMulCarry(_, _, _)
BigMulCarry(a, k, carry) ==
    IF a = <<>> THEN BigOfNat(carry)
    ELSE LET t == Head(a) * k + carry
         IN  <<t % BigBase>> \o BigMulCarry(Tail(a), k, t \div BigBase)

BigMulSmall(a, k) == BigStrip(BigMulCarry(a, k, 0))

\* a * b, limb by limb
RECURSIVE BigMul(_, _)
BigMul(a, b) ==
    IF b = <<>> THEN <<>>
    ELSE BigAdd(BigMulSmall(a, Head(b)),
                BigStrip(<<0>> \o BigMul(a, Tail(b))))

\* quotient and remainder of a by d, 0 < d < 2^16, from the top limb down
RECURSIVE BigDivRem(_, _)
BigDivRem(a, d) ==
    IF a = <<>> THEN [q |-> <<>>, r |-> 0]
    ELSE LET up == BigDivRem(Tail(a), d)
             t  == up.r * BigBase + Head(a)
         IN  [q |-> <<t \div d>> \o up.q, r |-> t % d]

BigDivSmall(a, d) ==
    LET qr == BigDivRem(a, d) IN [q |-> BigStrip(qr.q), r |-> qr.r]

RECURSIVE BitLenNat(_)
BitLenNat(n) == IF n = 0 THEN 0 ELSE 1 + BitLenNat(n \div 2)

BigBitLen(a) ==
    IF a = <<>> THEN 0 ELSE (Len(a) - 1) * LimbBits + BitLenNat(a[Len(a)])

BigIsOdd(a) == a # <<>> /\ a[1] % 2 = 1

\* a * 2^s
BigShiftLeft(a, s) ==
    IF a = <<>> THEN <<>>
    ELSE [k \in 1..(s \div LimbBits) |-> 0] \o BigMulSmall(a, 2 ^ (s % LimbBits))

\* a \div 2^s, and whether a bit was shifted out
BigShiftRight(a, s) ==
    LET limbs == s \div LimbBits
        kept  == IF limbs >= Len(a) THEN <<>> ELSE SubSeq(a, limbs + 1, Len(a))
        lost  == \E k \in 1..Len(a) : k <= limbs /\ a[k] # 0
        qr    == BigDivSmall(kept, 2 ^ (s % LimbBits))
    IN  [q |-> qr.q, sticky |-> (lost \/ qr.r # 0)]

F64(m, e) == [m |-> m, e |-> e]

\* variant: the bits that do not fit are cut off (round toward zero)
F64RoundTowardZero(x, e, inexact) ==
    LET len == BigBitLen(x)
    IN  IF len <= MantissaBits THEN F64(x, e)
        ELSE F64(BigShiftRight(x, len - MantissaBits).q, e + len - MantissaBits)

\* the double nearest (ties to even) to the real x * 2^e, or to a real
\* strictly between x * 2^e and (x + 1) * 2^e when `inexact`; an inexact x
\* has more than MantissaBits + 1 bits
F64Round(x, e, inexact) ==
    LET len == BigBitLen(x)
    IN  IF len <= MantissaBits THEN F64(x, e)
        ELSE LET s     == len - MantissaBits
                 g     == BigShiftRight(x, s - 1)
                 guard == BigIsOdd(g.q)
                 q     == BigShiftRight(g.q, 1).q
                 more  == g.sticky \/ inexact
                 up    == guard /\ (more \/ BigIsOdd(q))
             IN  F64(IF up THEN BigAdd(q, <<1>>) ELSE q, e + s)

\* `n as f64` for a small natural n: exact
F64OfNat(n) == F64(BigOfNat(n), 0)

\* x / d for a natural 0 < d < 2^15 (the divisor as a double is exact)
F64DivNat(x, d) ==
    LET qr == BigDivSmall(BigShiftLeft(x.m, DivScale), d)
    IN  F64Round(qr.q, x.e - DivScale, qr.r # 0)

\* x * y
F64Mul(x, y) == F64Round(BigMul(x.m, y.m), x.e + y.e, FALSE)

\* x > 1.0
F64Above1(x) ==
    /\ x.m # <<>>
    /\ \/ BigBitLen(x.m) + x.e > 1
       \/ BigBitLen(x.m) + x.e = 1 /\ x.m # BigShiftLeft(<<1>>, BigBitLen(x.m) - 1)

\* x.min(1.0)
F64Min1(x) == IF F64Above1(x) THEN F64OfNat(1) ELSE x

RECURSIVE BigToNat(_)
BigToNat(a) == IF a = <<>> THEN 0 ELSE Head(a) + BigBase * BigToNat(Tail(a))

\* the 64-bit value a (16-bit limbs) as a natural number in BigBase limbs
BigOfU64(a) ==
    BigAdd(BigAdd(BigOfNat(a[1]), BigShiftLeft(BigOfNat(a[2]), 16)),
           BigAdd(BigShiftLeft(BigOfNat(a[3]), 32),
                  BigShiftLeft(BigOfNat(a[4]), 48)))

\* `a as f64` for a u64: rounded when a has more than 53 bits
F64OfU64(a) == F64Round(BigOfU64(a), 0, FALSE)

\* variant: the u16 nearest to x
F64AsU16Nearest(x) ==
    IF x.e >= 0 THEN BigToNat(BigShiftLeft(x.m, x.e))
    ELSE LET g == BigShiftRight(x.m, 0 - x.e - 1).q
         IN  BigToNat(BigShiftRight(g, 1).q) + (IF BigIsOdd(g) THEN 1 ELSE 0)

\* line 254, `x as u16` for 0 <= x < 2^16: the fraction is cut off
F64AsU16(x) ==
    IF x.e >= 0 THEN BigToNat(BigShiftLeft(x.m, x.e))
    ELSE BigToNat(BigShiftRight(x.m, 0 - x.e).q)

\* variant: 100.0 / current
BrightnessInverted(brightness_opt) ==
    IF brightness_opt[2] = U64Of(0) THEN F64OfNat(0)
    ELSE F64DivNat(F64OfNat(brightness_opt[3]), ToNat(brightness_opt[2]))

\* line 428: the f64 that Some(current as f64 / 100.0) holds, from the
\* pair <<"Some", current, 100>>
Brightness(brightness_opt) ==
    F64DivNat(F64OfU64(brightness_opt[2]), brightness_opt[3])

\* lines 239-255: the closure calulate_value(None) at index i of a table
\* of `size` entries, i < size, size > 1
calulate_value(i, size, brightness_opt) ==
    LET value0 == F64DivNat(F64OfNat(i), size - 1)
        value1 == IF brightness_opt[1] = "Some"
                  THEN F64Mul(value0, Brightness(brightness_opt))
                  ELSE value0
    IN  F64AsU16(F64Mul(F64Min1(value1), F64OfNat(65535)))

\* the inputs of the separate evaluation
MaxSize == 10

MaxPercent == 117

RampSizes == 2..MaxSize

RampBrightnesses ==
    {<<"None">>} \cup {<<"Some", U64Of(p), 100>> : p \in 0..MaxPercent}

(***************************************************************************)
(* State.                                                                  *)
(***************************************************************************)
VARIABLES
    \* the environment
    requested_file,     \* content of .../intel_backlight/brightness
    max_file,           \* content of .../intel_backlight/max_brightness
    inotify_queue,      \* unread inotify events (the watch each belongs to)
    x_socket,           \* X events on the connection's socket, not yet read
    x_queue,            \* X events Xlib has read into its event queue
    dbus_system,        \* [ready, items]: the fd polls readable; messages
    dbus_session,       \*   watch_handle() will hand out
    env_steps,          \* events the environment has produced
    \* locals of main()
    pc,                 \* "loop_top", "while", "poll", "panicked"
    panic,              \* the panic message, "none" while running
    requested_update, requested, max_update, max,
    current, next, timeout, timeout_times,
    \* number of native handles fetched and not freed; a stray free was seen
    live, stray_free,
    \* history of the run, for the properties
    applies_since_wait, \* Applier invocations since the last wait returned
    last_failed,        \* the latest Applier invocation failed a fetch
    last_brightness,    \* brightness_opt of the latest Applier invocation
    sentinel_at_top,    \* current = !0 at the top of this iteration
    matched,            \* current = next when this iteration computed next
    applied_when_equal, \* the Applier was invoked with current = next
    level_changed,      \* this iteration read a level that differs
    settle_timeouts,    \* zero-event timeouts since a bus item with no
                        \*   other event since; -1 outside such a window
    last_wait,          \* what the last wait returned
    \* one invocation of xrandr_output_brightness taken alone
    screen,             \* what the X server answers about its outputs
    applier_brightness, \* the invocation's brightness_opt
    applier_calls,      \* the native calls it made; <<>> before it ran
    crtc_gamma,         \* per CRTC, the table last committed to it
    \* one evaluation of calulate_value taken alone
    ramp_size,          \* gamma.size()
    ramp_index,         \* i
    ramp_brightness,    \* brightness_opt
    ramp_value          \* the u16 it returned; -1 before it ran

env_vars ==
    <<requested_file, max_file, inotify_queue, x_socket, x_queue,
      dbus_system, dbus_session, env_steps>>

main_vars ==
    <<pc, panic, requested_update, requested, max_update, max,
      current, next, timeout, timeout_times>>

handle_vars == <<live, stray_free>>

history_vars ==
    <<applies_since_wait, last_failed, last_brightness, sentinel_at_top,
      matched, applied_when_equal, level_changed, settle_timeouts, last_wait>>

applier_vars == <<screen, applier_brightness, applier_calls, crtc_gamma>>

ramp_vars == <<ramp_size, ramp_index, ramp_brightness, ramp_value>>

vars ==
    <<env_vars, main_vars, handle_vars, history_vars, applier_vars, ramp_vars>>

\* the reactor alone: no separate invocation, no separate evaluation
ApplierIdle ==
    /\ screen = NoResources
    /\ applier_brightness = <<"None">>
    /\ applier_calls = <<>>
    /\ crtc_gamma = Untouched

RampIdle ==
    /\ ramp_size = 0
    /\ ramp_index = 0
    /\ ramp_brightness = <<"None">>
    /\ ramp_value = -1

NoWait ==
    [bus_ready |-> FALSE, bus_item |-> FALSE, mid_settle |-> FALSE,
     notify |-> FALSE]

BusIdle == [ready |-> FALSE, items |-> 0]

\* lines 305-385: the state when the loop is first entered
MainInit ==
    /\ requested_file \in RequestedFiles
    /\ max_file \in MaxFiles
    /\ inotify_queue = <<>>
    /\ x_socket = <<>>
    /\ x_queue = <<>>
    /\ dbus_system = BusIdle
    /\ dbus_session = BusIdle
    /\ env_steps = 0
    /\ pc = "loop_top"
    /\ panic = "none"
    /\ requested_update = TRUE
    /\ requested = U64Of(0)
    /\ max_update = TRUE
    /\ max = U64Of(0)
    /\ current = Sentinel
    /\ next = U64Of(0)
    /\ timeout = InfiniteTimeout
    /\ timeout_times = 0
    /\ live = 0
    /\ stray_free = FALSE
    /\ applies_since_wait = 0
    /\ last_failed = FALSE
    /\ last_brightness = <<"never">>
    /\ sentinel_at_top = FALSE
    /\ matched = FALSE
    /\ applied_when_equal = FALSE
    /\ level_changed = FALSE
    /\ settle_timeouts = -1
    /\ last_wait = NoWait

Init == MainInit /\ ApplierIdle /\ RampIdle

(***************************************************************************)
(* The environment.                                                        *)
(***************************************************************************)
Running == pc # "panicked"

\* the kernel merges an event identical to the last unread one
Enqueue(q, wd) == IF q # <<>> /\ q[Len(q)] = wd THEN q ELSE Append(q, wd)

\* something writes the requested level; inotify reports IN_MODIFY
WriteRequested ==
    /\ Running /\ env_steps < MaxEnvSteps
    /\ Len(Enqueue(inotify_queue, "requested_watch")) <= MaxInotify
    /\ \E f \in RequestedFiles : requested_file' = f
    /\ inotify_queue' = Enqueue(inotify_queue, "requested_watch")
    /\ env_steps' = env_steps + 1
    /\ UNCHANGED <<max_file, x_socket, x_queue, dbus_system, dbus_session>>
    /\ UNCHANGED <<main_vars, handle_vars, history_vars>>
    /\ UNCHANGED <<applier_vars, ramp_vars>>

\* something writes the maximum level
WriteMax ==
    /\ Running /\ env_steps < MaxEnvSteps
    /\ Len(Enqueue(inotify_queue, "max_watch")) <= MaxInotify
    /\ \E f \in MaxFiles : max_file' = f
    /\ inotify_queue' = Enqueue(inotify_queue, "max_watch")
    /\ env_steps' = env_steps + 1
    /\ UNCHANGED <<requested_file, x_socket, x_queue, dbus_system, dbus_session>>
    /\ UNCHANGED <<main_vars, handle_vars, history_vars>>
    /\ UNCHANGED <<applier_vars, ramp_vars>>

\* the X server sends an event
XEventArrives ==
    /\ Running /\ env_steps < MaxEnvSteps
    /\ Len(x_socket) + Len(x_queue) < MaxXEvents
    /\ \E e \in XEvents : x_socket' = Append(x_socket, e)
    /\ env_steps' = env_steps + 1
    /\ UNCHANGED <<requested_file, max_file, inotify_queue, x_queue,
                   dbus_system, dbus_session>>
    /\ UNCHANGED <<main_vars, handle_vars, history_vars>>
    /\ UNCHANGED <<applier_vars, ramp_vars>>

BusAfter(bus, n) == [ready |-> TRUE, items |-> bus.items + n]

\* bytes arrive on a bus connection; they hold n complete messages for
\* watch_handle() to hand out (none when the data is a partial message or
\* one libdbus consumes itself)
BusTraffic ==
    /\ Running /\ env_steps < MaxEnvSteps
    /\ \E b \in Buses, n \in 0..1 :
        /\ (IF b = "system" THEN dbus_system ELSE dbus_session).items + n
               <= MaxBusItems
        /\ b = "system" =>
              /\ dbus_system' = BusAfter(dbus_system, n)
              /\ UNCHANGED dbus_session
        /\ b = "session" =>
              /\ dbus_session' = BusAfter(dbus_session, n)
              /\ UNCHANGED dbus_system
    /\ env_steps' = env_steps + 1
    /\ UNCHANGED <<requested_file, max_file, inotify_queue, x_socket, x_queue>>
    /\ UNCHANGED <<main_vars, handle_vars, history_vars>>
    /\ UNCHANGED <<applier_vars, ramp_vars>>

(***************************************************************************)
(* The reactor loop of main(), lines 386-525.                              *)
(***************************************************************************)
\* variant: a source that cannot be read or parsed counts as level 0
ReadLevelLenient(file) ==
    IF file.err THEN [ok |-> TRUE, why |-> "none", value |-> U64Of(0)]
    ELSE LET p == ParseU64(Trim(file.text))
         IN  [ok |-> TRUE, why |-> "none",
              value |-> IF p.ok THEN p.value ELSE U64Of(0)]

\* seek, read_to_string, trim, parse::<u64> with the three expect()s
ReadLevel(file) ==
    IF file.err THEN [ok |-> FALSE, why |-> "read", value |-> U64Of(0)]
    ELSE LET p == ParseU64(Trim(file.text))
         IN  IF p.ok THEN [ok |-> TRUE, why |-> "none", value |-> p.value]
             ELSE [ok |-> FALSE, why |-> "parse", value |-> U64Of(0)]

Kept(value) == [ok |-> TRUE, why |-> "none", value |-> value]

\* lines 387-412 up to `let next`: what the top of one iteration leaves.
\* `overflow_checks` is the build's setting (on in debug, off in release).
LoopTopOutcome(overflow_checks) ==
    LET r == IF requested_update THEN ReadLevel(requested_file)
             ELSE Kept(requested)
        m == IF max_update THEN ReadLevel(max_file) ELSE Kept(max)
    IN  IF ~r.ok
        THEN [panic |-> "failed to " \o r.why \o " requested brightness",
              requested |-> requested, requested_update |-> requested_update,
              max |-> max, max_update |-> max_update, next |-> next]
        ELSE IF ~m.ok
        THEN [panic |-> "failed to " \o m.why \o " max brightness",
              requested |-> r.value, requested_update |-> FALSE,
              max |-> max, max_update |-> max_update, next |-> next]
        ELSE IF Product(r.value).overflow /\ overflow_checks
        THEN [panic |-> "attempt to multiply with overflow",
              requested |-> r.value, requested_update |-> FALSE,
              max |-> m.value, max_update |-> FALSE, next |-> next]
        ELSE IF m.value = U64Of(0)
        THEN [panic |-> "attempt to divide by zero",
              requested |-> r.value, requested_update |-> FALSE,
              max |-> m.value, max_update |-> FALSE, next |-> next]
        ELSE [panic |-> "none",
              requested |-> r.value, requested_update |-> FALSE,
              max |-> m.value, max_update |-> FALSE,
              next |-> Fraction(r.value, m.value)]

LoopTop ==
    /\ pc = "loop_top"
    /\ \E overflow_checks \in BOOLEAN :
        LET o == LoopTopOutcome(overflow_checks)
        IN  /\ requested' = o.requested
            /\ requested_update' = o.requested_update
            /\ max' = o.max
            /\ max_update' = o.max_update
            /\ next' = o.next
            /\ panic' = o.panic
            /\ IF o.panic # "none"
               THEN /\ pc' = "panicked"
                    /\ UNCHANGED <<sentinel_at_top, matched, level_changed>>
               ELSE /\ pc' = "while"
                    /\ sentinel_at_top' = (current = Sentinel)
                    /\ matched' = (current = o.next)
                    /\ level_changed' =
                           (o.requested # requested \/ o.max # max)
    /\ UNCHANGED <<current, timeout, timeout_times>>
    /\ UNCHANGED <<applies_since_wait, last_failed, last_brightness,
                   applied_when_equal, settle_timeouts, last_wait>>
    /\ UNCHANGED <<env_vars, handle_vars>>
    /\ UNCHANGED <<applier_vars, ramp_vars>>

\* variants: `while current < next` and `while current >= next`
LoopConditionLess(cur, nxt) == U64Less(cur, nxt)

LoopConditionGreaterEq(cur, nxt) == U64LessEq(nxt, cur)

\* line 413: while current != next
LoopCondition(cur, nxt) == cur # nxt

\* variant: current is set to next only when the Applier fetched everything
CurrentAfterApplyOnSuccess(cur, nxt, failed) == IF failed THEN cur ELSE nxt

\* line 414: current = next, before the Applier runs and whatever it does
CurrentAfterApply(cur, nxt, failed) == nxt

\* lines 413-432, one pass through the body of the while loop.  Each fetch
\* is a round trip on the display connection: Xlib reads the events that
\* arrived before the reply off the socket into its event queue.
ApplyBrightness ==
    /\ pc = "while"
    /\ LoopCondition(current, next)
    /\ \E o \in ApplierOutcomes :
        /\ current' = CurrentAfterApply(current, next, o.failed)
        /\ live' = Min(live + o.leaked, MaxLive)
        /\ stray_free' = (stray_free \/ o.stray)
        /\ last_failed' = o.failed
    /\ last_brightness' = BrightnessOpt(next)
    /\ x_queue' = x_queue \o x_socket
    /\ x_socket' = <<>>
    /\ applies_since_wait' = Min(applies_since_wait + 1, MaxApplies)
    /\ applied_when_equal' = (applied_when_equal \/ current = next)
    /\ UNCHANGED <<pc, panic, requested_update, requested, max_update, max,
                   next, timeout, timeout_times>>
    /\ UNCHANGED <<requested_file, max_file, inotify_queue, dbus_system,
                   dbus_session, env_steps>>
    /\ UNCHANGED <<sentinel_at_top, matched, level_changed,
                   settle_timeouts, last_wait>>
    /\ UNCHANGED <<applier_vars, ramp_vars>>

\* line 413 with the condition false: on to the poll
LeaveWhile ==
    /\ pc = "while"
    /\ ~LoopCondition(current, next)
    /\ pc' = "poll"
    /\ UNCHANGED <<panic, requested_update, requested, max_update, max,
                   current, next, timeout, timeout_times>>
    /\ UNCHANGED <<env_vars, handle_vars, history_vars>>
    /\ UNCHANGED <<applier_vars, ramp_vars>>

\* which pollfds the poll reports ready (revents > 0)
InotifyReady == inotify_queue # <<>>

DisplayReady == x_socket # <<>>

SystemReady == dbus_system.ready

SessionReady == dbus_session.ready

AnyReady == InotifyReady \/ DisplayReady \/ SystemReady \/ SessionReady

Settle(cur, to, times) == [current |-> cur, timeout |-> to, timeout_times |-> times]

\* variant: the first timeout of a settle window ends it
TimeoutHandlerEndsWindow(st) ==
    IF st.timeout_times = 0
    THEN Settle(Sentinel, InfiniteTimeout, st.timeout_times)
    ELSE Settle(Sentinel, InfiniteTimeout, st.timeout_times - 1)

\* lines 446-453: count == 0
TimeoutHandler(st) ==
    IF st.timeout_times = 0
    THEN Settle(Sentinel, InfiniteTimeout, st.timeout_times)
    ELSE Settle(Sentinel, st.timeout, st.timeout_times - 1)

\* lines 471-493: drain the display connection
IsRRNotify(e) == e.type >= xrr_event_base /\ e.type - xrr_event_base = RRNotify

\* variant: a notification also opens the settle window, as a bus item does
DisplayHandlerSettles(st, drained) ==
    IF \E i \in 1..Len(drained) : IsRRNotify(drained[i])
    THEN Settle(Sentinel, ShortTimeout, TimeoutTimes)
    ELSE st

DisplayHandler(st, drained) ==
    IF \E i \in 1..Len(drained) : IsRRNotify(drained[i])
    THEN Settle(Sentinel, st.timeout, st.timeout_times)
    ELSE st

\* variant: a settle window, once open, is not refreshed
BusHandlerNoRefresh(st, items) ==
    IF items = 0 THEN st
    ELSE IF st.timeout = InfiniteTimeout
    THEN [current |-> Sentinel, timeout |-> ShortTimeout,
          timeout_times |-> TimeoutTimes]
    ELSE [current |-> Sentinel, timeout |-> st.timeout,
          timeout_times |-> st.timeout_times]

\* lines 495-508 and 510-523: `for item in watch_handle(..)`, items times
BusHandler(st, items) ==
    IF items > 0 THEN Settle(Sentinel, ShortTimeout, TimeoutTimes) ELSE st

\* variant: the flag follows the last event read
FlaggedByLast(flag, watch, events) ==
    IF events = <<>> THEN flag ELSE events[Len(events)] = watch

\* lines 460-467: `for event in events`, the flag of the watch `watch`
Flagged(flag, watch, events) == flag \/ watch \in Range(events)

MidSettle == timeout = ShortTimeout /\ timeout_times \in 1..(TimeoutTimes - 1)

\* lines 435-453: the poll times out with no descriptor ready
PollTimeout ==
    /\ pc = "poll"
    /\ ~AnyReady
    /\ timeout # InfiniteTimeout
    /\ LET st == TimeoutHandler(Settle(current, timeout, timeout_times))
       IN  /\ current' = st.current
           /\ timeout' = st.timeout
           /\ timeout_times' = st.timeout_times
    /\ pc' = "loop_top"
    /\ applies_since_wait' = 0
    /\ settle_timeouts' =
           IF settle_timeouts >= 0
           THEN Min(settle_timeouts + 1, TimeoutTimes + 2)
           ELSE settle_timeouts
    /\ last_wait' = [NoWait EXCEPT !.mid_settle = MidSettle]
    /\ UNCHANGED <<panic, requested_update, requested, max_update, max, next>>
    /\ UNCHANGED <<last_failed, last_brightness, sentinel_at_top, matched,
                   applied_when_equal, level_changed>>
    /\ UNCHANGED <<env_vars, handle_vars>>
    /\ UNCHANGED <<applier_vars, ramp_vars>>

\* lines 435-443 and 454-524: the poll returns with descriptors ready.
\* read_events takes every unread inotify event (the 1024-byte buffer holds
\* 64 of them); the display is drained only if its descriptor is ready.
PollEvents ==
    /\ pc = "poll"
    /\ AnyReady
    /\ LET drained == IF DisplayReady THEN x_queue \o x_socket ELSE <<>>
           system_items == IF SystemReady THEN dbus_system.items ELSE 0
           session_items == IF SessionReady THEN dbus_session.items ELSE 0
           st0 == Settle(current, timeout, timeout_times)
           st1 == DisplayHandler(st0, drained)
           st2 == BusHandler(st1, system_items)
           st3 == BusHandler(st2, session_items)
       IN  /\ requested_update' =
                  Flagged(requested_update, "requested_watch", inotify_queue)
           /\ max_update' = Flagged(max_update, "max_watch", inotify_queue)
           /\ current' = st3.current
           /\ timeout' = st3.timeout
           /\ timeout_times' = st3.timeout_times
           /\ settle_timeouts' =
                  IF system_items + session_items > 0 THEN 0 ELSE -1
           /\ last_wait' =
                  [bus_ready |-> (SystemReady \/ SessionReady),
                   bus_item |-> (system_items + session_items > 0),
                   mid_settle |-> MidSettle,
                   notify |-> \E i \in 1..Len(drained) : IsRRNotify(drained[i])]
    /\ inotify_queue' = <<>>
    /\ x_queue' = IF DisplayReady THEN <<>> ELSE x_queue
    /\ x_socket' = <<>>
    /\ dbus_system' = IF SystemReady THEN BusIdle ELSE dbus_system
    /\ dbus_session' = IF SessionReady THEN BusIdle ELSE dbus_session
    /\ pc' = "loop_top"
    /\ applies_since_wait' = 0
    /\ UNCHANGED <<panic, requested, max, next>>
    /\ UNCHANGED <<requested_file, max_file, env_steps>>
    /\ UNCHANGED <<last_failed, last_brightness, sentinel_at_top, matched,
                   applied_when_equal, level_changed>>
    /\ UNCHANGED handle_vars
    /\ UNCHANGED <<applier_vars, ramp_vars>>

\* lines 444-445: count < 0 (poll fails, e.g. with EINTR)
PollError ==
    /\ pc = "poll"
    /\ pc' = "panicked"
    /\ panic' = "failed to poll"
    /\ UNCHANGED <<requested_update, requested, max_update, max, current,
                   next, timeout, timeout_times>>
    /\ UNCHANGED <<env_vars, handle_vars, history_vars>>
    /\ UNCHANGED <<applier_vars, ramp_vars>>

Next ==
    \/ WriteRequested
    \/ WriteMax
    \/ XEventArrives
    \/ BusTraffic
    \/ LoopTop
    \/ ApplyBrightness
    \/ LeaveWhile
    \/ PollTimeout
    \/ PollEvents
    \/ PollError

Spec == Init /\ [][Next]_vars

(***************************************************************************)
(* xrandr_output_brightness taken alone: the X server's answers and the    *)
(* brightness are drawn, the invocation runs once.                         *)
(***************************************************************************)
MainIdle ==
    /\ MainInit
    /\ requested_file = File(Text128)
    /\ max_file = File(Text255)

InitApplier ==
    /\ MainIdle
    /\ RampIdle
    /\ screen \in Screens
    /\ applier_brightness \in Brightnesses
    /\ applier_calls = <<>>
    /\ crtc_gamma = Untouched

\* lines 216-280 against the answers of `screen`
InvokeApplier ==
    /\ applier_calls = <<>>
    /\ applier_calls' = xrandr_output_brightness(screen, applier_brightness)
    /\ crtc_gamma' = GammaAfter(applier_calls', crtc_gamma)
    /\ UNCHANGED <<screen, applier_brightness>>
    /\ UNCHANGED <<env_vars, main_vars, handle_vars, history_vars, ramp_vars>>

NextApplier == InvokeApplier

SpecApplier == InitApplier /\ [][NextApplier]_vars

(***************************************************************************)
(* calulate_value taken alone: table size, index and brightness are        *)
(* drawn, the closure is evaluated once.                                   *)
(***************************************************************************)
InitRamp ==
    /\ MainIdle
    /\ ApplierIdle
    /\ ramp_size \in RampSizes
    /\ ramp_index \in 0..(MaxSize - 1)
    /\ ramp_index < ramp_size
    /\ ramp_brightness \in RampBrightnesses
    /\ ramp_value = -1

\* lines 239-257: *r = calulate_value(None)
CalculateValue ==
    /\ ramp_value = -1
    /\ ramp_value' = calulate_value(ramp_index, ramp_size, ramp_brightness)
    /\ UNCHANGED <<ramp_size, ramp_index, ramp_brightness>>
    /\ UNCHANGED <<env_vars, main_vars, handle_vars, history_vars, applier_vars>>

NextRamp == CalculateValue

SpecRamp == InitRamp /\ [][NextRamp]_vars

(***************************************************************************)
(* Properties.                                                             *)
(***************************************************************************)
SettleEntered ==
    /\ current = Sentinel
    /\ timeout = ShortTimeout
    /\ timeout_times = TimeoutTimes

IsPercent(f) == IsSmall(f) /\ ToNat(f) <= 100

\* C1: after a bus item and with no other event since, the zero-event
\* timeouts that force a reapply number at most the configured retries, and
\* when the timeout is infinite again exactly that many have happened.
C1_ExactlyConfiguredRetries ==
    /\ settle_timeouts <= TimeoutTimes
    /\ (settle_timeouts >= 0 /\ timeout = InfiniteTimeout)
           => settle_timeouts = TimeoutTimes

\* C2 as stated: once the reactor has handled a wait that returned with a
\* bus descriptor ready, current is the sentinel, the timeout is the short
\* one and the retry budget is full.
C2_BusReadyEntersSettle ==
    (pc = "loop_top" /\ last_wait.bus_ready) => SettleEntered

\* C2 amended: once the reactor has handled a wait in which watch_handle
\* handed out at least one item of either bus, current is the sentinel, the
\* timeout is the short one and the retry budget is full, also when the
\* item came in the middle of a settle window.
C2_BusItemEntersSettle ==
    (pc = "loop_top" /\ last_wait.bus_item) => SettleEntered

\* a bus item handled while the budget was partly used
C2_Witness ==
    /\ pc = "loop_top"
    /\ last_wait.bus_item
    /\ last_wait.mid_settle
    /\ SettleEntered

\* C3: the computed next is never the sentinel, and an iteration that
\* starts with current at the sentinel has invoked the Applier exactly once
\* when it reaches the wait.
C3_SentinelForcesOneApply ==
    /\ pc \in {"while", "poll"} => next # Sentinel
    /\ (pc = "poll" /\ sentinel_at_top) => applies_since_wait = 1

\* a forced reapply with both levels as they were
C3_Witness ==
    /\ pc = "poll"
    /\ sentinel_at_top
    /\ ~level_changed
    /\ applies_since_wait = 1

\* C4: the Applier is never invoked while current equals next, and an
\* iteration that finds current equal to the next it computed reaches the
\* wait without invoking it.
C4_EqualFractionSkipsApplier ==
    /\ ~applied_when_equal
    /\ matched => applies_since_wait = 0

\* a level was re-read and differs, the percent is the same, nothing applied
C4_Witness ==
    /\ pc = "poll"
    /\ matched
    /\ level_changed
    /\ applies_since_wait = 0
    /\ last_brightness # <<"never">>

\* C5: a maximum of 0 never reaches the division of line 411.
C5_ZeroMaxNeverDivides == panic # "attempt to divide by zero"

\* C6: current is the sentinel or a percent in 0..100.
C6_FractionIsPercent == current = Sentinel \/ IsPercent(current)

\* C7: the Applier is invoked at most once between two waits, and between
\* startup and the first wait.
C7_AtMostOneApplyPerWait == applies_since_wait <= 1

\* an invocation that failed a fetch, and the reactor on to the wait
C7_Witness ==
    /\ pc = "poll"
    /\ last_failed
    /\ applies_since_wait = 1
    /\ current = next

\* C8: when the reactor reaches a wait and the latest Applier invocation
\* failed a fetch, that invocation was made in the cycle that just ended
\* (a failure is retried by the cycle after it).
C8_FailureRetriedNextCycle ==
    (pc = "poll" /\ last_failed) => applies_since_wait >= 1

\* C9: no fetched handle is live and none was freed twice, in every state
\* and so whenever the reactor waits.
C9_HandlesReleasedOnce == live = 0 /\ ~stray_free

\* the reactor waits after an invocation that took an error path
C9_Witness ==
    /\ pc = "poll"
    /\ applies_since_wait = 1
    /\ last_failed
    /\ live = 0

\* C10: the reactor does not enter the wait with an event in Xlib's queue.
C10_NoQueuedDisplayEventAtWait == pc = "poll" => x_queue = <<>>

\* the invocation of SpecApplier has run and every fetch succeeded
AppliedCleanly == applier_calls # <<>> /\ ~FetchFailed(applier_calls)

\* C11 as stated: after an invocation that fetched everything, an output's
\* table has been written exactly if the output's name starts with the
\* target and the output has a CRTC.
C11_PrefixOutputsWritten ==
    AppliedCleanly =>
        \A k \in 1..Len(screen.outputs) :
            LET o == screen.outputs[k]
            IN  (o.crtc # 0 /\ crtc_gamma[o.crtc] # <<"untouched">>)
                    <=> (StartsWith(o.name, output) /\ o.crtc # 0)

\* C11 amended: after an invocation that fetched everything, the table of
\* a CRTC has been written, with the ramp of the invocation's brightness,
\* exactly if some output whose name is valid UTF-8 and starts with the
\* target is attached to that CRTC; every other CRTC's table is untouched.
C11_PrefixCrtcsWritten ==
    AppliedCleanly =>
        \A c \in Crtcs :
            crtc_gamma[c] =
                IF \E k \in 1..Len(screen.outputs) :
                       /\ screen.outputs[k].crtc = c
                       /\ FromUtf8Ok(screen.outputs[k].name)
                       /\ StartsWith(screen.outputs[k].name, output)
                THEN applier_brightness
                ELSE <<"untouched">>

\* eDP-1 and eDP-1-2 on a CRTC each, both written
C11_Witness ==
    /\ AppliedCleanly
    /\ Len(screen.outputs) = 2
    /\ screen.outputs[1].name = NameEDP1
    /\ screen.outputs[2].name = NameEDP12
    /\ screen.outputs[1].crtc = 1
    /\ screen.outputs[2].crtc = 2
    /\ applier_brightness # <<"None">>
    /\ crtc_gamma[1] = applier_brightness
    /\ crtc_gamma[2] = applier_brightness

\* f is floor(req * 100 / mx): the product fits 64 bits and f is its
\* quotient (the quotient of a wrapped product is smaller than the floor)
IsFloorPercent(f, req, mx) ==
    /\ ~Product(req).overflow
    /\ f = DivSmall(Product(req).value, ToNat(mx))

\* C12: the next computed from the levels read is floor(requested * 100 /
\* max); an Applier invocation gets no brightness exactly if that fraction
\* is 100 and otherwise the brightness fraction / 100, never 100 / 100.
C12_FloorFractionAndScale ==
    /\ pc \in {"while", "poll"} => IsFloorPercent(next, requested, max)
    /\ applies_since_wait >= 1 =>
           /\ last_brightness = <<"None">> <=> next = U64Of(100)
           /\ last_brightness # <<"None">> =>
                  last_brightness = <<"Some", next, 100>>
           /\ last_brightness # <<"Some", U64Of(100), 100>>

\* a / b rounded to the nearest integer, halves upward
RoundDiv(a, b) == (2 * a + b) \div (2 * b)

\* the evaluation of SpecRamp has run
Evaluated == ramp_value >= 0

\* the next index of the same table gets a value that is no smaller
NextIndexNotBelow ==
    ramp_index + 1 < ramp_size =>
        ramp_value <= calulate_value(ramp_index + 1, ramp_size, ramp_brightness)

\* C13 as stated: with no brightness the value at index i of a table of N
\* entries is i / (N - 1) * 65535 rounded to the nearest integer, and the
\* values do not decrease with i.
C13_IdentityRampRounded ==
    (Evaluated /\ ramp_brightness = <<"None">>) =>
        /\ ramp_value = RoundDiv(ramp_index * 65535, ramp_size - 1)
        /\ NextIndexNotBelow

\* C13 amended: with no brightness the value at index i of a table of N
\* entries is floor(i / (N - 1) * 65535), and the values do not decrease
\* with i.
C13_IdentityRampFloored ==
    (Evaluated /\ ramp_brightness = <<"None">>) =>
        /\ ramp_value = (ramp_index * 65535) \div (ramp_size - 1)
        /\ NextIndexNotBelow

\* the middle of a table of three entries: 32767.5 is cut to 32767
C13_Witness ==
    /\ Evaluated
    /\ ramp_brightness = <<"None">>
    /\ ramp_size = 3
    /\ ramp_index = 1
    /\ ramp_value = 32767

\* the evaluation was of the last index with a brightness p / 100, p in 1..99
TopOfRamp(p) ==
    /\ Evaluated
    /\ ramp_index = ramp_size - 1
    /\ ramp_brightness = <<"Some", U64Of(p), 100>>

\* C14 as stated: with brightness p / 100, p in 1..99, the value at the
\* last index is p / 100 * 65535 rounded to the nearest integer.
C14_TopOfRampRounded ==
    \A p \in 1..99 : TopOfRamp(p) => ramp_value = RoundDiv(p * 65535, 100)

\* C14 amended: with brightness p / 100, p in 1..99, the value at the last
\* index is floor(p / 100 * 65535).
C14_TopOfRampFloored ==
    \A p \in 1..99 : TopOfRamp(p) => ramp_value = (p * 65535) \div 100

\* 20 / 100 at the top: the double nearest 0.2 times 65535 is the integer
\* 13107 only because the product is rounded to nearest
C14_Witness == TopOfRamp(20) /\ ramp_value = 13107 /\ ramp_size = 4

\* C15: with a brightness p / 100 in (0, 1] the value is at most the value
\* of the same index with no brightness.
C15_ScalingNeverBrightens ==
    \A p \in 1..100 :
        (Evaluated /\ ramp_brightness = <<"Some", U64Of(p), 100>>) =>
            ramp_value <= calulate_value(ramp_index, ramp_size, <<"None">>)

\* a scaled value strictly below the unscaled one, away from the ends
C15_Witness ==
    /\ Evaluated
    /\ ramp_brightness = <<"Some", U64Of(99), 100>>
    /\ ramp_index \in 1..(ramp_size - 2)
    /\ ramp_value > 0
    /\ ramp_value < calulate_value(ramp_index, ramp_size, <<"None">>)

\* reading the file fails, or its trimmed text is no u64
Unusable(file) == file.err \/ ~ParseU64(Trim(file.text)).ok

\* the top of the iteration is about to read a source that is unusable
ReadWillFail ==
    /\ pc = "loop_top"
    /\ \/ requested_update /\ Unusable(requested_file)
       \/ max_update /\ Unusable(max_file)

ReadPanics ==
    {"failed to read requested brightness", "failed to parse requested brightness",
     "failed to read max brightness", "failed to parse max brightness"}

\* C16: an iteration whose read meets an unusable source ends in the panic
\* of that read: it computes no next, invokes no Applier, enters no wait,
\* keeps the level it could not read; and after the panic the program takes
\* no further step.
C16_ReadFailureIsFatal ==
    [][/\ (ReadWillFail /\ pc' # pc) =>
              /\ pc' = "panicked"
              /\ panic' \in ReadPanics
              /\ next' = next
              /\ current' = current
              /\ Unusable(requested_file) /\ requested_update
                     => requested' = requested /\ max' = max
              /\ max' = max
       /\ pc = "panicked" =>
              UNCHANGED <<main_vars, handle_vars, history_vars>>]_vars

\* a source turned unusable after the Applier had run with the old level
C16_Witness ==
    /\ pc = "panicked"
    /\ panic \in ReadPanics
    /\ last_brightness # <<"never">>
    /\ current # Sentinel
    /\ current = next

\* the level a usable source holds
LevelIn(file) == ParseU64(Trim(file.text)).value

\* C17: a wait that returns events of a source's watch sets that source's
\* dirty flag and no other; the iteration after it re-reads the flagged
\* sources and only them, clears both flags and computes next from the
\* levels it then has; and it enters the next wait only with current equal
\* to that next, having invoked the Applier with it if they differed.
C17_FileChangeReflected ==
    [][/\ (pc = "poll" /\ pc' = "loop_top") =>
              /\ requested_update' =
                     (requested_update
                          \/ \E k \in 1..Len(inotify_queue) :
                                 inotify_queue[k] = "requested_watch")
              /\ max_update' =
                     (max_update
                          \/ \E k \in 1..Len(inotify_queue) :
                                 inotify_queue[k] = "max_watch")
       /\ (pc = "loop_top" /\ pc' = "while") =>
              /\ ~requested_update' /\ ~max_update'
              /\ requested' = IF requested_update THEN LevelIn(requested_file)
                               ELSE requested
              /\ max' = IF max_update THEN LevelIn(max_file) ELSE max
              /\ next' = Fraction(requested', max')
       /\ (pc = "while" /\ pc' = "poll") =>
              /\ current = next
              /\ ~matched =>
                     /\ applies_since_wait >= 1
                     /\ last_brightness = BrightnessOpt(next)]_vars

\* a level was re-read after a wait, its fraction differs from the applied
\* one, and the Applier has run with it before the next wait
C17_Witness ==
    /\ pc = "poll"
    /\ ~sentinel_at_top
    /\ level_changed
    /\ ~matched
    /\ applies_since_wait = 1
    /\ last_brightness = BrightnessOpt(next)
    /\ current = next

\* an RRNotify event of subtype RRNotify_OutputChange
IsOutputChange(e) ==
    e.type = xrr_event_base + RRNotify /\ e.subtype = RRNotify_OutputChange

\* C18: in a wait cycle with no bus descriptor ready, the timeout, the
\* retry budget stay as they are; current becomes the sentinel exactly if
\* the display was ready and an output-change notification was among the
\* events drained, and is unchanged otherwise; the dirty flags change only
\* by the file events read, so not at all in a cycle of display events alone.
C18_DisplayForcesSentinelOnly ==
    [][(pc = "poll" /\ pc' = "loop_top" /\ AnyReady
            /\ ~SystemReady /\ ~SessionReady) =>
          /\ timeout' = timeout
          /\ timeout_times' = timeout_times
          /\ current' =
                 IF /\ DisplayReady
                    /\ \E k \in 1..Len(x_queue \o x_socket) :
                           IsOutputChange((x_queue \o x_socket)[k])
                 THEN Sentinel
                 ELSE current
          /\ ~InotifyReady =>
                 /\ requested_update' = requested_update
                 /\ max_update' = max_update]_vars

\* an output-change notification handled in the middle of a settle window:
\* current is the sentinel, the timeout and the used budget are as before
C18_Witness ==
    /\ pc = "loop_top"
    /\ last_wait.notify
    /\ ~last_wait.bus_ready
    /\ last_wait.mid_settle
    /\ current = Sentinel
    /\ MidSettle
    /\ ~requested_update
    /\ ~max_update

\* C19: whenever the reactor is about to wait, both dirty flags are
\* false, current is not the sentinel, current is floor(requested * 100 /
\* max) of the levels last read, and it is the fraction the latest Applier
\* invocation was given.
C19_WaitsWithAppliedFloor ==
    pc = "poll" =>
        /\ ~requested_update
        /\ ~max_update
        /\ current # Sentinel
        /\ IsFloorPercent(current, requested, max)
        /\ last_brightness = BrightnessOpt(current)

\* C20: the timeout is -1 or 100, the retry budget is in 0..10 and is 0
\* whenever the timeout is -1; and a wait that returns with a descriptor
\* ready never lowers the budget.
C20_SettleInvariant ==
    /\ [](/\ timeout \in {-1, 100}
          /\ timeout_times \in 0..10
          /\ timeout = -1 => timeout_times = 0)
    /\ [][(pc = "poll" /\ pc' = "loop_top" /\ AnyReady) =>
              timeout_times' >= timeout_times]_vars

\* a file event handled in the middle of a settle window, budget untouched
C20_Witness ==
    /\ pc = "loop_top"
    /\ requested_update
    /\ last_wait.mid_settle
    /\ ~last_wait.bus_item
    /\ timeout = 100
    /\ timeout_times \in 1..9

=============================================================================
